---- MODULE Spec2Model ----
(***************************************************************************)
(* Model of source/lib/blueprints/byom/pipeline_definitions/               *)
(* deploy_actions.py: the factory functions that build lambda roles,       *)
(* policies and CodePipeline actions inside a CDK construct scope.         *)
(*                                                                         *)
(* Strings are sequences of symbols.  A caller-supplied string is a        *)
(* sequence of one-character symbols; a literal of the source that no      *)
(* caller string of the model can spell ("arn:aws:s3:::", "_role", ...)    *)
(* is one symbol.  An f-string is the concatenation (\o) of its parts.     *)
(***************************************************************************)
EXTENDS Integers, Sequences, FiniteSets, TLC

VARIABLES tree, plan, status, epoch, lastCall

vars == <<tree, plan, status, epoch, lastCall>>

(***************************************************************************)
(* Bounds of the model.                                                    *)
(***************************************************************************)
MaxStages == 2
MaxNamedStages == 3
MaxSessionStages == 2
MaxRunOrder == 2
MaxEpoch == 2

Builds == {1, 2}

(***************************************************************************)
(* Program constants.                                                      *)
(***************************************************************************)
lambda_service == <<"lambda.amazonaws.com">>
sagemaker_service == <<"sagemaker.amazonaws.com">>
StacksetTimeoutMinutes == 15
BaselineTimeoutMinutes == 10
StacksetRunOrder == 1
UuidPrefixLen == 8

(***************************************************************************)
(* Strings.                                                                *)
(***************************************************************************)
HexDigits == {"0", "1", "2", "3", "4", "5", "6", "7", "8", "9",
              "a", "b", "c", "d", "e", "f"}

NoDup(s) == \A i, j \in 1..Len(s) : s[i] = s[j] => i = j

Range(s) == {s[i] : i \in 1..Len(s)}

\* The sequences that list every element of the finite set S exactly once.
Orderings(S) == {s \in [1..Cardinality(S) -> S] : Range(s) = S}

\* s without the elements that already occur earlier in it
RECURSIVE Dedup(_)
Dedup(s) ==
    IF s = <<>> THEN <<>>
    ELSE LET front == Dedup(SubSeq(s, 1, Len(s) - 1))
             last == s[Len(s)]
         IN  IF last \in Range(front) THEN front ELSE Append(front, last)

\* s[:n] of Python: the first n elements, or all of s when it is shorter
Slice(s, n) == SubSeq(s, 1, IF Len(s) < n THEN Len(s) ELSE n)

(***************************************************************************)
(* iam_policies: the permission statements.  A statement is a category     *)
(* (which fixes its actions) and the list of resources it is scoped to.    *)
(***************************************************************************)
Categories == {"storage-read", "storage-write", "compute-baseline-job",
               "compute-batch-transform", "stack-management", "key-management"}

\* buildPolicy(category, resourceIdentifiers)
buildPolicy(category, resourceIdentifiers) ==
    IF category \notin Categories
    THEN [err |-> "InvalidCategory", category |-> category, resources |-> <<>>]
    ELSE IF resourceIdentifiers = <<>>
    THEN [err |-> "EmptyResourceSet", category |-> category, resources |-> <<>>]
    ELSE [err |-> "none", category |-> category,
          resources |-> Dedup(resourceIdentifiers)]

s3_policy_read(resources_list) == buildPolicy("storage-read", resources_list)

s3_policy_write(resources_list) == buildPolicy("storage-write", resources_list)

batch_transform_policy == buildPolicy("compute-batch-transform", << <<"*">> >>)

sagemaker_baseline_job_policy(baseline_job_name) ==
    buildPolicy("compute-baseline-job",
                << <<"processing-job/">> \o baseline_job_name >>)

\* stack-set permissions, scoped to the stack-set's own ARN pattern
cloudformation_stackset_policy(stack_name) ==
    buildPolicy("stack-management",
                << <<"stackset/">> \o stack_name \o <<":", "*">> >>)

cloudformation_stackset_instances_policy(stack_name) ==
    buildPolicy("stack-management",
                << <<"stackset-target/">> \o stack_name \o <<":", "*">> >>)

\* iam.PolicyStatement(actions=[...], resources=[...]) built in place
PolicyStatement(action, resources) ==
    [err |-> "none", category |-> action, resources |-> resources]

S3Arn(path) == <<"arn:aws:s3:::">> \o path

(***************************************************************************)
(* The construct tree of a scope.  tree[b] holds the constructs created    *)
(* in the scope of build b; a construct remembers the scope object it was  *)
(* created in (the build and the epoch of its scope).  A step of a factory *)
(* maps a context [tree, err] to a context and does nothing once err is    *)
(* set: an exception ends the call.                                        *)
(***************************************************************************)
Construct(scope, id, kind) ==
    [id |-> id, scope |-> scope, kind |-> kind, principal |-> <<>>,
     statements |-> <<>>, condition |-> "none", attached |-> {},
     role |-> <<>>, timeout |-> 0]

Ids(t) == {c.id : c \in t}

Find(t, id) == CHOOSE c \in t : c.id = id

\* Construct.__init__: a scope holds one construct per id
AddConstruct(ctx, c, error) ==
    IF ctx.err # "none" THEN ctx
    ELSE IF c.id \in Ids(ctx.tree)
    THEN [ctx EXCEPT !.err = error, !.dup = c.id]
    ELSE [ctx EXCEPT !.tree = @ \cup {c}]

\* create_service_role(scope, id, service, description)
create_service_role(ctx, scope, id, service) ==
    AddConstruct(ctx, [Construct(scope, id, "role") EXCEPT !.principal = service],
                 "DuplicateRoleName")

\* role.add_to_policy(statement)
add_to_policy(ctx, role_id, statement) ==
    IF ctx.err # "none" THEN ctx
    ELSE IF statement.err # "none" THEN [ctx EXCEPT !.err = statement.err]
    ELSE LET r == Find(ctx.tree, role_id)
         IN  [ctx EXCEPT !.tree = (@ \ {r}) \cup
                 {[r EXCEPT !.statements = Append(@, statement)]}]

\* add_logs_policy(role)
add_logs_policy(ctx, role_id) ==
    add_to_policy(ctx, role_id, PolicyStatement("logs", << <<"log-group">> >>))

\* lambda_.Function(scope, id, role=..., timeout=...)
Function(ctx, scope, id, role_id, timeout) ==
    AddConstruct(ctx, [Construct(scope, id, "function") EXCEPT
                          !.role = role_id, !.timeout = timeout],
                 "DuplicateConstructId")

\* The scope object a build passes to every factory call.
ScopeOf(b) == <<b, epoch[b]>>

\* The construct tree in which a factory called with scope registers.
SessionOfShared(scope) == 1
SessionOf(scope) == scope[1]

Begin(scope) == [tree |-> tree[SessionOf(scope)], err |-> "none", dup |-> <<>>]

\* A statement that could not be built raises where it is built.
Built(ctx, statement) ==
    IF ctx.err = "none" /\ statement.err # "none"
    THEN [ctx EXCEPT !.err = statement.err]
    ELSE ctx

\* iam.Policy(scope, id, statements=[statement])
Policy(ctx, scope, id, statement) ==
    AddConstruct(Built(ctx, statement),
                 [Construct(scope, id, "policy") EXCEPT !.statements = <<statement>>],
                 "DuplicateConstructId")

sagemaker_logs_metrics_policy_document(ctx, scope, id) ==
    Policy(ctx, scope, id, PolicyStatement("logs-metrics", << <<"*">> >>))

kms_policy_document(ctx, scope, id, kms_key_arn) ==
    Policy(ctx, scope, id, buildPolicy("key-management", <<kms_key_arn>>))

\* core.Aspects.of(construct).add(ConditionalResources(condition)): the
\* construct is materialized only when the condition holds.
ConditionalResources(ctx, id, condition) ==
    IF ctx.err # "none" THEN ctx
    ELSE LET c == Find(ctx.tree, id)
         IN  [ctx EXCEPT !.tree = (@ \ {c}) \cup
                 {[c EXCEPT !.condition = IF condition THEN "true" ELSE "false"]}]

\* policy.attach_to_role(role)
attach_to_role(ctx, policy_id, role_id) ==
    IF ctx.err # "none" THEN ctx
    ELSE LET c == Find(ctx.tree, policy_id)
         IN  [ctx EXCEPT !.tree = (@ \ {c}) \cup
                 {[c EXCEPT !.attached = @ \cup {role_id}]}]

RoleArn(role_id) == <<"role/">> \o role_id

\* The statements of a role as the provisioning engine materializes them:
\* its own, and those of the attached policies whose condition is not false.
AttachedPolicies(t, role_id) ==
    {c \in t : c.kind = "policy" /\ role_id \in c.attached /\ c.condition # "false"}

OwnCount(t, role_id, category) ==
    LET r == Find(t, role_id)
    IN  Cardinality({i \in 1..Len(r.statements) : r.statements[i].category = category})

AttachedCount(t, role_id, category) ==
    Cardinality({c \in AttachedPolicies(t, role_id) :
                    c.statements[1].category = category})

MaterializedCount(t, role_id, category) ==
    OwnCount(t, role_id, category) + AttachedCount(t, role_id, category)

(***************************************************************************)
(* How a factory call ends: the constructs it created stay in the tree of  *)
(* its scope; it returns its result, or raises and returns nothing.  An    *)
(* exception that leaves the factory ends the build that called it.        *)
(***************************************************************************)
Outcome(b, fn, args, ctx) ==
    /\ tree' = [tree EXCEPT ![SessionOf(ScopeOf(b))] = ctx.tree]
    /\ status' = [status EXCEPT ![b] = IF ctx.err = "none" THEN @ ELSE "failed"]
    /\ lastCall' = [build |-> b, fn |-> fn, args |-> args,
                    err |-> ctx.err, dup |-> ctx.dup]
    /\ UNCHANGED epoch

ReturnActionDespiteError(b, fn, args, ctx, action) ==
    /\ Outcome(b, fn, args, ctx)
    /\ plan' = [plan EXCEPT ![b] = Append(@, action)]

ReturnAction(b, fn, args, ctx, action) ==
    /\ Outcome(b, fn, args, ctx)
    /\ plan' = [plan EXCEPT ![b] = IF ctx.err = "none" THEN Append(@, action) ELSE @]

ReturnLambda(b, fn, args, ctx) ==
    /\ Outcome(b, fn, args, ctx)
    /\ UNCHANGED plan

Stage(action_name, kind, run_order, input) ==
    [action_name |-> action_name, kind |-> kind, run_order |-> run_order,
     input |-> input, stack_name |-> <<>>, lambda |-> <<>>]

(***************************************************************************)
(* batch_transform                                                         *)
(***************************************************************************)
BatchReadArnsWidened(assets_bucket, batch_input_bucket, batch_inference_data) ==
    {S3Arn(assets_bucket), S3Arn(assets_bucket \o <<"/", "*">>),
     S3Arn(batch_input_bucket), S3Arn(batch_input_bucket \o <<"/", "*">>),
     S3Arn(batch_inference_data)}

BatchReadArns(assets_bucket, batch_input_bucket, batch_inference_data) ==
    {S3Arn(assets_bucket), S3Arn(assets_bucket \o <<"/", "*">>),
     S3Arn(batch_input_bucket), S3Arn(batch_inference_data)}

BatchWriteArns(batch_job_output_location) ==
    << S3Arn(batch_job_output_location \o <<"/", "*">>) >>

\* read_list is list(set([...])): the set's elements in an order the runtime picks
batch_transform(b, id, assets_bucket, batch_input_bucket, batch_inference_data, batch_job_output_location, read_list) ==
    /\ status[b] = "building"
    /\ read_list \in Orderings(BatchReadArns(assets_bucket, batch_input_bucket,
                                             batch_inference_data))
    /\ LET scope == ScopeOf(b)
            role_id == <<"batch_transform_lambda_role">>
            s3_read == s3_policy_read(read_list)
            s3_write == s3_policy_write(BatchWriteArns(batch_job_output_location))
            c0 == Built(Built(Built(Begin(scope), s3_read), s3_write),
                        batch_transform_policy)
            c1 == create_service_role(c0, scope, role_id, lambda_service)
            c2 == add_to_policy(c1, role_id, batch_transform_policy)
            c3 == add_to_policy(c2, role_id, s3_read)
            c4 == add_to_policy(c3, role_id, s3_write)
            c5 == add_logs_policy(c4, role_id)
            \* the lambda is given no timeout: 0
            c6 == Function(c5, scope, id, role_id, 0)
        IN  ReturnLambda(b, "batch_transform",
                         [id |-> id, assets_bucket |-> assets_bucket,
                          batch_input_bucket |-> batch_input_bucket,
                          batch_inference_data |-> batch_inference_data,
                          batch_job_output_location |-> batch_job_output_location],
                         c6)

(***************************************************************************)
(* create_data_baseline_job                                                *)
(***************************************************************************)
BaselineReadArns(assets_bucket, training_data_location) ==
    << S3Arn(assets_bucket),
       S3Arn(assets_bucket \o <<"/">> \o training_data_location) >>

BaselineWriteArns(baseline_job_output_location) ==
    << S3Arn(baseline_job_output_location \o <<"/", "*">>) >>

BaselineKmsUnconditional(ctx, id, condition) == ctx
BaselineKmsCondition(ctx, id, condition) == ConditionalResources(ctx, id, condition)

create_data_baseline_job(b, assets_bucket, baseline_job_name, training_data_location, baseline_job_output_location, kms_key_arn, kms_key_arn_provided_condition) ==
    /\ status[b] = "building"
    /\ LET scope == ScopeOf(b)
           sm_role == <<"create_baseline_sagemaker_role">>
           l_role == <<"create_baseline_job_lambda_role">>
           kms_id == <<"BaselineKmsPolicy">>
           logs_id == <<"BaselineLogsMetrcis">>
           s3_read == s3_policy_read(BaselineReadArns(assets_bucket,
                                                      training_data_location))
           s3_write == s3_policy_write(BaselineWriteArns(baseline_job_output_location))
           job_policy == sagemaker_baseline_job_policy(baseline_job_name)
           c0 == Built(Built(Built(Begin(scope), s3_read), s3_write), job_policy)
           c1 == sagemaker_logs_metrics_policy_document(c0, scope, logs_id)
           c2 == kms_policy_document(c1, scope, kms_id, kms_key_arn)
           c3 == BaselineKmsCondition(c2, kms_id, kms_key_arn_provided_condition)
           c4 == create_service_role(c3, scope, sm_role, sagemaker_service)
           c5 == attach_to_role(c4, kms_id, sm_role)
           c6 == add_to_policy(c5, sm_role,
                               PolicyStatement("sts:AssumeRole", <<RoleArn(sm_role)>>))
           c7 == create_service_role(c6, scope, l_role, lambda_service)
           c8 == attach_to_role(c7, logs_id, sm_role)
           c9 == add_to_policy(c8, sm_role, job_policy)
           c10 == add_to_policy(c9, sm_role, s3_read)
           c11 == add_to_policy(c10, sm_role, s3_write)
           c12 == add_to_policy(c11, l_role,
                                PolicyStatement("iam:PassRole", <<RoleArn(sm_role)>>))
           c13 == add_to_policy(c12, l_role, job_policy)
           c14 == add_to_policy(c13, l_role, s3_write)
           c15 == add_to_policy(c14, l_role, s3_read)
           c16 == add_logs_policy(c15, l_role)
           c17 == Function(c16, scope, <<"create_data_baseline_job">>, l_role,
                           BaselineTimeoutMinutes)
       IN  ReturnLambda(b, "create_data_baseline_job",
                        [assets_bucket |-> assets_bucket,
                         training_data_location |-> training_data_location,
                         baseline_job_output_location |-> baseline_job_output_location,
                         kms_key_arn |-> kms_key_arn,
                         kms_key_arn_provided_condition |->
                             kms_key_arn_provided_condition],
                        c17)

(***************************************************************************)
(* create_stackset_action                                                  *)
(***************************************************************************)
\* str(uuid.uuid4()): 8-4-4-4-12 hexadecimal digits, from its 32 digits
UuidStr(h) ==
    SubSeq(h, 1, 8) \o <<"-">> \o SubSeq(h, 9, 12) \o <<"-">> \o SubSeq(h, 13, 16)
    \o <<"-">> \o SubSeq(h, 17, 20) \o <<"-">> \o SubSeq(h, 21, 32)

\* f"{stack_name}-{str(uuid.uuid4())[:8]}"
UniqueStackName(stack_name, uuid4) ==
    stack_name \o <<"-">> \o Slice(UuidStr(uuid4), UuidPrefixLen)

StacksetParamsUnsuffixed(caller_stack_name, stack_name) ==
    [stackset_name |-> caller_stack_name]
StacksetUserParameters(caller_stack_name, stack_name) ==
    [stackset_name |-> stack_name]

create_stackset_action(b, action_name, source_output, caller_stack_name, uuid4) ==
    /\ status[b] = "building"
    /\ LET scope == ScopeOf(b)
           role_id == action_name \o <<"_role">>
           lambda_id == action_name \o <<"_stackset_lambda">>
           c1 == create_service_role(Begin(scope), scope, role_id, lambda_service)
           stack_name == UniqueStackName(caller_stack_name, uuid4)
           c2 == add_to_policy(Built(c1, cloudformation_stackset_policy(stack_name)),
                               role_id, cloudformation_stackset_policy(stack_name))
           c3 == add_to_policy(
                     Built(c2, cloudformation_stackset_instances_policy(stack_name)),
                     role_id, cloudformation_stackset_instances_policy(stack_name))
           c4 == add_logs_policy(c3, role_id)
           c5 == Function(c4, scope, lambda_id, role_id, StacksetTimeoutMinutes)
           action == [Stage(action_name, "LambdaInvoke", StacksetRunOrder, source_output)
                        EXCEPT !.lambda = lambda_id,
                               !.stack_name =
                                   StacksetUserParameters(caller_stack_name,
                                                          stack_name).stackset_name]
       IN  ReturnAction(b, "create_stackset_action",
                        [action_name |-> action_name, stack_name |-> caller_stack_name,
                         source_output |-> source_output, uuid4 |-> UuidStr(uuid4)],
                        c5, action)

(***************************************************************************)
(* create_cloudformation_action                                            *)
(***************************************************************************)
create_cloudformation_action(b, action_name, stack_name, source_output, run_order) ==
    /\ status[b] = "building"
    /\ ReturnAction(b, "create_cloudformation_action",
                    [action_name |-> action_name, stack_name |-> stack_name,
                     source_output |-> source_output, run_order |-> run_order],
                    Begin(ScopeOf(b)),
                    [Stage(action_name, "CloudFormation", run_order, source_output)
                       EXCEPT !.stack_name = stack_name])

(***************************************************************************)
(* The caller: the deployment definition that owns the scope, creates the  *)
(* source action whose output the factories consume, hands the finished    *)
(* plan over, and starts the next build with a scope of its own.           *)
(***************************************************************************)
NoCall == [build |-> 0, fn |-> "none", args |-> <<>>, err |-> "none", dup |-> <<>>]

source_action(b, action_name, run_order) ==
    /\ status[b] = "building"
    /\ \A i \in 1..Len(plan[b]) : plan[b][i].action_name # action_name
    /\ plan' = [plan EXCEPT ![b] = Append(@, Stage(action_name, "Source", run_order, 0))]
    /\ lastCall' = [NoCall EXCEPT !.build = b, !.fn = "source_action"]
    /\ UNCHANGED <<tree, status, epoch>>

finish(b) ==
    /\ status[b] = "building"
    /\ status' = [status EXCEPT ![b] = "done"]
    /\ UNCHANGED <<tree, plan, epoch, lastCall>>

new_build(b) ==
    /\ status[b] \in {"done", "failed"}
    /\ status' = [status EXCEPT ![b] = "building"]
    /\ epoch' = [epoch EXCEPT ![b] = @ + 1]
    /\ tree' = [tree EXCEPT ![b] = {}]
    /\ plan' = [plan EXCEPT ![b] = <<>>]
    /\ lastCall' = NoCall

\* The artifacts a caller can pass as source_output: 0, an artifact from
\* outside the plan, or the output of a source action of the plan.
SourceOutputs(b) ==
    {0} \cup {i \in 1..Len(plan[b]) : plan[b][i].kind = "Source"}

(***************************************************************************)
(* Inputs.                                                                 *)
(***************************************************************************)
ActionNames == {<<"a">>, <<"b">>}

SourceName == <<"S", "o", "u", "r", "c", "e">>

StackNames == {<<"s">>, <<"t">>}

HexSample == {"0", "f"}

\* the 32 digits of a version-4 UUID: digit 13 is 4, digit 17 is 8..b
UuidDigits(x, y) ==
    [i \in 1..32 |-> IF i = 8 THEN x ELSE IF i = 13 THEN "4"
                     ELSE IF i = 17 THEN "8" ELSE IF i = 32 THEN y ELSE "0"]

UuidSamples == {UuidDigits(x, y) : x \in HexSample, y \in HexSample}

Uuid0 == UuidDigits("0", "0")

Buckets == {<<"a">>, <<"b">>}

DataPaths == {<<"a">>, <<"a", "/", "*">>, <<"b", "/", "d">>}

Locations == {<<"d">>, <<"*">>}

\* ids a caller may give the batch-transform lambda
BatchIds == {<<"b", "t">>, <<"a">> \o <<"_stackset_lambda">>,
             <<"create_data_baseline_job">>}

\* one order of the read list of batch_transform(.., "a", "b", "a/d", ..)
ReadList0 ==
    << S3Arn(<<"a">>), S3Arn(<<"a", "/", "*">>), S3Arn(<<"b">>),
       S3Arn(<<"a", "/", "d">>) >>

KeyArn == <<"k">>

JobName == <<"j">>

Init ==
    /\ tree = [b \in Builds |-> {}]
    /\ plan = [b \in Builds |-> <<>>]
    /\ status = [b \in Builds |-> "building"]
    /\ epoch = [b \in Builds |-> 1]
    /\ lastCall = NoCall

(***************************************************************************)
(* Spec: one build that assembles a pipeline.                              *)
(***************************************************************************)
Next ==
    \/ /\ Len(plan[1]) < MaxStages
       /\ \E run_order \in 1..MaxRunOrder : source_action(1, SourceName, run_order)
    \/ /\ Len(plan[1]) < MaxStages
       /\ \E action_name \in ActionNames, source_output \in SourceOutputs(1) :
            create_stackset_action(1, action_name, source_output, <<"s">>, Uuid0)
    \/ /\ Len(plan[1]) < MaxStages
       /\ \E action_name \in ActionNames, source_output \in SourceOutputs(1),
             run_order \in 0..MaxRunOrder :
            create_cloudformation_action(1, action_name, <<"s">>, source_output,
                                         run_order)
    \/ \E id \in BatchIds :
            batch_transform(1, id, <<"a">>, <<"b">>, <<"a", "/", "d">>, <<"b">>,
                            ReadList0)
    \/ create_data_baseline_job(1, <<"a">>, JobName, <<"d">>, <<"b">>, KeyArn, TRUE)
    \/ finish(1)

Spec == Init /\ [][Next]_vars

(***************************************************************************)
(* SpecSessions: two builds, each with its own scope, interleaved.         *)
(***************************************************************************)
NextSessions ==
    \E b \in Builds :
        \/ /\ Len(plan[b]) < MaxSessionStages
           /\ \E action_name \in ActionNames :
                create_stackset_action(b, action_name, 0, <<"s">>, Uuid0)
        \/ \E id \in BatchIds :
                batch_transform(b, id, <<"a">>, <<"b">>, <<"a", "/", "d">>, <<"b">>,
                                ReadList0)
        \/ finish(b)
        \/ epoch[b] < MaxEpoch /\ new_build(b)

SpecSessions == Init /\ [][NextSessions]_vars

(***************************************************************************)
(* SpecNaming: one build that creates stack-set actions with random names. *)
(***************************************************************************)
NextNaming ==
    \/ /\ Len(plan[1]) < MaxNamedStages
       /\ \E action_name \in ActionNames, stack_name \in StackNames,
             uuid4 \in UuidSamples :
            create_stackset_action(1, action_name, 0, stack_name, uuid4)
    \/ finish(1)

SpecNaming == Init /\ [][NextNaming]_vars

(***************************************************************************)
(* SpecPolicy: one build that creates the lambdas and their roles.         *)
(***************************************************************************)
NextPolicy ==
    \/ \E assets_bucket \in Buckets, batch_input_bucket \in Buckets,
          batch_inference_data \in DataPaths :
            \E read_list \in Orderings(BatchReadArns(assets_bucket, batch_input_bucket,
                                                     batch_inference_data)) :
                batch_transform(1, <<"b", "t">>, assets_bucket, batch_input_bucket,
                                batch_inference_data, <<"b">>, read_list)
    \/ \E assets_bucket \in Buckets, training_data_location \in Locations,
          condition \in BOOLEAN :
            create_data_baseline_job(1, assets_bucket, JobName, training_data_location,
                                     <<"b">>, KeyArn, condition)
    \/ finish(1)

SpecPolicy == Init /\ [][NextPolicy]_vars

(***************************************************************************)
(* Properties.                                                             *)
(***************************************************************************)
Stages(b) == {plan[b][i] : i \in 1..Len(plan[b])}

Producer(b, i) == plan[b][plan[b][i].input]

\* C1: every plan that was built and handed over satisfies the dependency
\* order: a stage's input that a stage of the plan produces comes from a
\* stage with a strictly smaller run order.
C1_DependencyOrder ==
    \A b \in Builds : status[b] = "done" =>
        \A i \in 1..Len(plan[b]) :
            plan[b][i].input # 0 => Producer(b, i).run_order < plan[b][i].run_order

\* C2: no two stages accepted in one session share a name.
C2_UniqueStageNames ==
    \A b \in Builds : \A i, j \in 1..Len(plan[b]) :
        plan[b][i].action_name = plan[b][j].action_name => i = j

\* C8: every stage of a plan has a positive run order, and a positive
\* timeout where it has a lambda.
C8_PositiveRunOrderAndTimeout ==
    \A b \in Builds : \A st \in Stages(b) :
        /\ st.run_order >= 1
        /\ st.lambda # <<>> => Find(tree[b], st.lambda).timeout >= 1

\* Stage p is run before stage i: ascending run order, ties in declaration order.
RunsBefore(b, p, i) ==
    \/ plan[b][p].run_order < plan[b][i].run_order
    \/ plan[b][p].run_order = plan[b][i].run_order /\ p < i

\* C9: run in ascending run order, ties in declaration order, a built plan
\* runs every stage after the producers of its inputs, and no stage consumes
\* an artifact of a stage with its own run order.
C9_ExecutableInRunOrder ==
    \A b \in Builds : status[b] = "done" =>
        \A i \in 1..Len(plan[b]) :
            plan[b][i].input # 0 =>
                /\ RunsBefore(b, plan[b][i].input, i)
                /\ Producer(b, i).run_order # plan[b][i].run_order

IsStacksetStage(st) == st.kind = "LambdaInvoke"

IsUniqueNameOf(name, prefix) ==
    /\ Len(name) = Len(prefix) + 1 + UuidPrefixLen
    /\ SubSeq(name, 1, Len(prefix)) = prefix
    /\ name[Len(prefix) + 1] = "-"
    /\ \A k \in (Len(prefix) + 2)..Len(name) : name[k] \in HexDigits

\* C5: the stack-set names generated in one session are pairwise distinct,
\* each a prefix, the separator and 8 lowercase hexadecimal characters.
C5_PairwiseDistinctNames ==
    \A i, j \in 1..Len(plan[1]) :
        IsStacksetStage(plan[1][i]) /\ IsStacksetStage(plan[1][j]) =>
            /\ \E prefix \in StackNames : IsUniqueNameOf(plan[1][i].stack_name, prefix)
            /\ plan[1][i].stack_name = plan[1][j].stack_name => i = j

StackStatements(r) ==
    {i \in 1..Len(r.statements) : r.statements[i].category = "stack-management"}

LastCallOk(fn) == lastCall.fn = fn /\ lastCall.err = "none"

\* C10: the stack-set name in the action's user parameters is the one both
\* stack-management statements of the action's lambda role are scoped to,
\* and it is the suffixed name, not the caller's stack_name.
C10_StacksetNameConsistent ==
    /\ \A st \in Stages(1) : IsStacksetStage(st) =>
          LET r == Find(tree[1], st.action_name \o <<"_role">>)
          IN  /\ Cardinality(StackStatements(r)) = 2
              /\ \A i \in StackStatements(r) :
                    \E arn \in {<<"stackset/">>, <<"stackset-target/">>} :
                        r.statements[i].resources
                            = << arn \o st.stack_name \o <<":", "*">> >>
    /\ LastCallOk("create_stackset_action") =>
          LET st == plan[1][Len(plan[1])]
          IN  /\ st.stack_name # lastCall.args.stack_name
              /\ IsUniqueNameOf(st.stack_name, lastCall.args.stack_name)

C10_Witness ==
    /\ LastCallOk("create_stackset_action")
    /\ Len(plan[1]) = 2
    /\ plan[1][1].stack_name # plan[1][2].stack_name

(***************************************************************************)
(* Storage statements.                                                     *)
(***************************************************************************)
StatementsOf(r, category) ==
    {i \in 1..Len(r.statements) : r.statements[i].category = category}

ResourcesOf(r, category) ==
    UNION {Range(r.statements[i].resources) : i \in StatementsOf(r, category)}

\* the role holds one statement of the category, scoped to exactly ids
ScopedExactly(t, role_id, category, ids) ==
    LET r == Find(t, role_id)
    IN  /\ Cardinality(StatementsOf(r, category)) = 1
        /\ ResourcesOf(r, category) = ids
        /\ \A i \in StatementsOf(r, category) : NoDup(r.statements[i].resources)

SampleIds == {<<"x">>, <<"y">>}

SampleLists == UNION {[1..n -> SampleIds] : n \in 1..3}

\* C3: a storage-read or storage-write statement is scoped to exactly the
\* identifiers its factory lists, each once: none added, none omitted, none
\* twice, whether or not the factory removed duplicates itself.
C3_ExactResources ==
    /\ \A category \in {"storage-read", "storage-write"}, ids \in SampleLists :
          LET st == buildPolicy(category, ids)
          IN  st.err = "none" /\ NoDup(st.resources) /\ Range(st.resources) = Range(ids)
    /\ LastCallOk("batch_transform") =>
          LET a == lastCall.args
              role_id == <<"batch_transform_lambda_role">>
          IN  /\ ScopedExactly(tree[1], role_id, "storage-read",
                     {<<"arn:aws:s3:::">> \o a.assets_bucket,
                      <<"arn:aws:s3:::">> \o a.assets_bucket \o <<"/", "*">>,
                      <<"arn:aws:s3:::">> \o a.batch_input_bucket,
                      <<"arn:aws:s3:::">> \o a.batch_inference_data})
              /\ ScopedExactly(tree[1], role_id, "storage-write",
                     {<<"arn:aws:s3:::">> \o a.batch_job_output_location
                        \o <<"/", "*">>})
    /\ LastCallOk("create_data_baseline_job") =>
          LET a == lastCall.args
          IN  \A role_id \in {<<"create_baseline_sagemaker_role">>,
                              <<"create_baseline_job_lambda_role">>} :
                /\ ScopedExactly(tree[1], role_id, "storage-read",
                       {<<"arn:aws:s3:::">> \o a.assets_bucket,
                        <<"arn:aws:s3:::">> \o a.assets_bucket \o <<"/">>
                           \o a.training_data_location})
                /\ ScopedExactly(tree[1], role_id, "storage-write",
                       {<<"arn:aws:s3:::">> \o a.baseline_job_output_location
                          \o <<"/", "*">>})

\* batch_transform was given a list with duplicates: the input bucket is the
\* assets bucket and the inference data is its object wildcard
C3_Witness ==
    /\ LastCallOk("batch_transform")
    /\ lastCall.args.batch_input_bucket = lastCall.args.assets_bucket
    /\ lastCall.args.batch_inference_data = lastCall.args.assets_bucket \o <<"/", "*">>
    /\ \E c \in tree[1] : c.id = <<"create_baseline_sagemaker_role">>

(***************************************************************************)
(* Conditional statements.                                                 *)
(***************************************************************************)
SagemakerRole == <<"create_baseline_sagemaker_role">>

C4_State ==
    LastCallOk("create_data_baseline_job") =>
        /\ MaterializedCount(tree[1], SagemakerRole, "key-management")
              = IF lastCall.args.kms_key_arn_provided_condition THEN 1 ELSE 0
        /\ lastCall.args.kms_key_arn_provided_condition =>
              \E c \in AttachedPolicies(tree[1], SagemakerRole) :
                  c.statements = << [err |-> "none", category |-> "key-management",
                                     resources |-> <<lastCall.args.kms_key_arn>>] >>

C4_Stable ==
    \A c \in tree[1] : c.kind = "role" =>
        /\ \E d \in tree'[1] : d.id = c.id
        /\ MaterializedCount(tree'[1], c.id, "key-management")
              = MaterializedCount(tree[1], c.id, "key-management")

\* C4: the key-management statement is absent from the materialized
\* statements of the role when its flag is false and present exactly once
\* when it is true, and the materialized statements of a role never change
\* once the call that created it has returned.
C4_ConditionalStatement == []C4_State /\ [][C4_Stable]_vars

C4_Witness ==
    /\ LastCallOk("create_data_baseline_job")
    /\ ~lastCall.args.kms_key_arn_provided_condition
    /\ \E c \in tree[1] : c.id = <<"BaselineKmsPolicy">> /\ SagemakerRole \in c.attached

(***************************************************************************)
(* Errors and sessions.                                                    *)
(***************************************************************************)
C6_Step ==
    \A b \in Builds :
        \* the failing call returns nothing and runs none of its later steps
        /\ status[b] = "building" /\ status'[b] = "failed" =>
              /\ lastCall'.build = b /\ lastCall'.err # "none"
              /\ plan'[b] = plan[b]
              /\ \A c \in tree'[b] \ tree[b] : c.kind # "function"
        \* a call that raises ends its build
        /\ lastCall'.build = b /\ lastCall'.err # "none" => status'[b] = "failed"
        \* nothing more is built in a failed build: its plan is never handed
        \* over, and the next build starts from an empty registry
        /\ status[b] = "failed" =>
              \/ tree'[b] = tree[b] /\ plan'[b] = plan[b] /\ status'[b] = "failed"
              \/ tree'[b] = {} /\ plan'[b] = <<>> /\ status'[b] = "building"

C7_SessionIsolation ==
    /\ \A b \in Builds : \A c \in tree[b] : c.scope = <<b, epoch[b]>>
    /\ lastCall.err \in {"DuplicateRoleName", "DuplicateConstructId"} =>
          \E c \in tree[lastCall.build] :
              /\ c.id = lastCall.dup
              /\ c.scope = <<lastCall.build, epoch[lastCall.build]>>

\* both builds hold the same stage, the second in a scope it started afterwards
C7_Witness ==
    /\ epoch[2] = 2
    /\ status[1] = "building" /\ status[2] = "building"
    /\ plan[1] # <<>> /\ plan[1] = plan[2]
    /\ LastCallOk("create_stackset_action") /\ lastCall.build = 2

====
